---- MODULE Spec2Model ----
(***************************************************************************)
(* Model of library/dellemc_idrac_firmware_update.py: one run of main(),   *)
(* from the connection to the iDRAC to the module's exit.                  *)
(*                                                                         *)
(* Python strings are sequences of one-character strings, so that lower(), *)
(* startswith(), endswith(), "in", urlparse() and the IPv4 regular         *)
(* expression are computed character by character as the code does.        *)
(***************************************************************************)
EXTENDS Integers, Sequences, FiniteSets, TLC

VARIABLES
    pc,                 \* position of the run in main / update_fw_from_repo
    share_name,         \* module.params['share_name']
    share_mnt,          \* module.params['share_mnt']
    catalog_file_name,  \* module.params['catalog_file_name']
    ServerGeneration,   \* idrac.ServerGeneration
    use_redfish,        \* idrac.use_redfish
    entry_redfish,      \* idrac.use_redfish as the session had it on entry
    msg,                \* the msg dict of update_fw_from_repo
    err,                \* the err flag of update_fw_from_repo
    calls,              \* requests issued to idrac.update_mgr, in order
    resp,               \* what the last remote request answered
    raised,             \* text of the exception caught at line 343, if any
    connected,          \* idrac_conn.connect() was called
    disconnected,       \* idrac_conn.disconnect() was called
    exitVia,            \* "fail_json" or "exit_json" once the module has exited
    result              \* the JSON the module exited with

vars == <<pc, share_name, share_mnt, catalog_file_name, ServerGeneration,
          use_redfish, entry_redfish, msg, err, calls, resp, raised,
          connected, disconnected, exitVia, result>>

----------------------------------------------------------------------------
(* Characters and Python's str methods *)

Digits == {"0", "1", "2", "3", "4", "5", "6", "7", "8", "9"}

UpperLetters ==
    <<"A", "B", "C", "D", "E", "F", "G", "H", "I", "J", "K", "L", "M",
      "N", "O", "P", "Q", "R", "S", "T", "U", "V", "W", "X", "Y", "Z">>

LowerLetters ==
    <<"a", "b", "c", "d", "e", "f", "g", "h", "i", "j", "k", "l", "m",
      "n", "o", "p", "q", "r", "s", "t", "u", "v", "w", "x", "y", "z">>

Letters == {UpperLetters[i] : i \in DOMAIN UpperLetters}
               \cup {LowerLetters[i] : i \in DOMAIN LowerLetters}

\* str.lower() on one character
LowerChar(c) ==
    IF \E i \in DOMAIN UpperLetters : UpperLetters[i] = c
    THEN LowerLetters[CHOOSE i \in DOMAIN UpperLetters : UpperLetters[i] = c]
    ELSE c

\* str.lower()
Lower(s) == [i \in 1..Len(s) |-> LowerChar(s[i])]

\* str.startswith(p)
StartsWith(s, p) == Len(s) >= Len(p) /\ SubSeq(s, 1, Len(p)) = p

\* str.endswith(p)
EndsWith(s, p) ==
    Len(s) >= Len(p) /\ SubSeq(s, Len(s) - Len(p) + 1, Len(s)) = p

\* sub in s, for two strings
Contains(s, sub) ==
    \E i \in 0..(Len(s) - Len(sub)) : SubSeq(s, i + 1, i + Len(sub)) = sub

\* 1-based position of the first character of s that is in C; 0 when there is
\* none (Python's find() answers -1)
FindChar(s, C) ==
    IF \E i \in 1..Len(s) : s[i] \in C
    THEN CHOOSE i \in 1..Len(s) :
             s[i] \in C /\ \A j \in 1..(i - 1) : s[j] \notin C
    ELSE 0

\* 1-based position of the last character of s that is in C; 0 when none
RFindChar(s, C) ==
    IF \E i \in 1..Len(s) : s[i] \in C
    THEN CHOOSE i \in 1..Len(s) :
             s[i] \in C /\ \A j \in (i + 1)..Len(s) : s[j] \notin C
    ELSE 0

----------------------------------------------------------------------------
(* String literals of the source *)

ErrorPrefix == <<"E", "r", "r", "o", "r", ":", " ">>

InvalidUrlPrefix ==
    <<"I", "n", "v", "a", "l", "i", "d", " ", "u", "r", "l", ":", " ">>

SchemeErrorStr ==
    <<"U", "R", "L", " ", "s", "c", "h", "e", "m", "e", " ", "m", "u", "s",
      "t", " ", "b", "e", " ", "o", "n", "e", " ", "o", "f", " ", "[", "'",
      "f", "t", "p", "'", ",", " ", "'", "h", "t", "t", "p", "'", ",", " ",
      "'", "h", "t", "t", "p", "s", "'", "]">>

NetlocErrorStr ==
    <<"U", "R", "L", " ", "n", "e", "t", "l", "o", "c", " ", "m", "u", "s",
      "t", " ", "b", "e", " ", "a", " ", "v", "a", "l", "i", "d", " ", "I",
      "P", "v", "4", " ", "o", "r", " ", "I", "P", "v", "6", " ", "a", "d",
      "d", "r", "e", "s", "s", ".">>

InvalidCatalogPrefix ==
    <<"I", "n", "v", "a", "l", "i", "d", " ", "c", "a", "t", "a", "l", "o",
      "g", " ", "f", "i", "l", "e", ":", " ">>

InvalidCatalogSuffix ==
    <<".", " ", "M", "u", "s", "t", " ", "e", "n", "d", " ", "w", "i", "t",
      "h", " ", "'", ".", "x", "m", "l", "'", " ", "o", "r", " ", "'", ".",
      "X", "M", "L", "'", " ", "e", "x", "t", "e", "n", "s", "i", "o", "n">>

ShareMntMsg ==
    <<"E", "r", "r", "o", "r", ":", " ", "'", "s", "h", "a", "r", "e", "_",
      "m", "n", "t", "'", " ", "i", "s", " ", "a", " ", "m", "a", "n", "d",
      "a", "t", "o", "r", "y", " ", "a", "r", "g", "u", "m", "e", "n", "t",
      " ", "f", "o", "r", " ", "R", "e", "d", "f", "i", "s", "h", " ", "b",
      "a", "s", "e", "d", " ", "f", "i", "r", "m", "w", "a", "r", "e", " ",
      "u", "p", "d", "a", "t", "e", " ", "u", "s", "i", "n", "g", " ", "S",
      "e", "r", "v", "e", "r", " ", "C", "o", "n", "f", "i", "g", "u", "r",
      "a", "t", "i", "o", "n", " ", "P", "r", "o", "f", "i", "l", "e", " ",
      "(", "S", "C", "P", ")">>

StatusKey == <<"S", "t", "a", "t", "u", "s">>

SuccessStr == <<"S", "u", "c", "c", "e", "s", "s">>

XmlExt == <<".", "x", "m", "l">>

UrlPrefixes ==
    { <<"h", "t", "t", "p", ":", "/", "/">>,
      <<"h", "t", "t", "p", "s", ":", "/", "/">>,
      <<"f", "t", "p", ":", "/", "/">> }

schemes == { <<"f", "t", "p">>, <<"h", "t", "t", "p">>,
             <<"h", "t", "t", "p", "s">> }

LegacyGenerations == { <<"1", "2">>, <<"1", "3">> }

\* str(e) of the exceptions the interpreter itself raises in this code
IPv6ErrorText ==
    <<"I", "n", "v", "a", "l", "i", "d", " ", "I", "P", "v", "6", " ", "U",
      "R", "L">>

StrIndexErrorText ==
    <<"s", "t", "r", "i", "n", "g", " ", "i", "n", "d", "i", "c", "e", "s",
      " ", "m", "u", "s", "t", " ", "b", "e", " ", "i", "n", "t", "e", "g",
      "e", "r", "s">>

NoneIterErrorText ==
    <<"a", "r", "g", "u", "m", "e", "n", "t", " ", "o", "f", " ", "t", "y",
      "p", "e", " ", "'", "N", "o", "n", "e", "T", "y", "p", "e", "'", " ",
      "i", "s", " ", "n", "o", "t", " ", "i", "t", "e", "r", "a", "b", "l",
      "e">>

----------------------------------------------------------------------------
(* Python values held in msg['msg'] *)

None == [type |-> "none"]

Str(s) == [type |-> "str", val |-> s]

\* a dict: whether it has the key "Status", and the value under it
Dict(hasStatus, status) ==
    [type |-> "dict", hasStatus |-> hasStatus, Status |-> status]

EmptyDict == Dict(FALSE, None)

----------------------------------------------------------------------------
(* urlparse(), as update_fw_from_url uses it *)

SchemeChars == Letters \cup Digits \cup {"+", "-", "."}

\* urllib's _splitparams(url): the path without the ";params" of its last
\* segment
SplitParams(url) ==
    LET slash == RFindChar(url, {"/"})
        tail  == SubSeq(url, slash + 1, Len(url))
        semi  == FindChar(tail, {";"})
    IN  IF semi = 0 THEN url ELSE SubSeq(url, 1, slash + semi - 1)

\* urlparse(url): [raises, scheme, netloc, path]. The scheme is lower-cased,
\* the netloc is what follows "//" up to the first of "/?#", the path is what
\* is left without its "?query", "#fragment" and ";params". A netloc with one
\* square bracket and not the other raises ValueError("Invalid IPv6 URL").
urlparse(url) ==
    LET i         == FindChar(url, {":"})
        hasScheme == /\ i > 1
                     /\ url[1] \in Letters
                     /\ \A j \in 1..(i - 1) : url[j] \in SchemeChars
        scheme    == IF hasScheme THEN Lower(SubSeq(url, 1, i - 1)) ELSE <<>>
        rest      == IF hasScheme THEN SubSeq(url, i + 1, Len(url)) ELSE url
        hasNetloc == StartsWith(rest, <<"/", "/">>)
        after     == SubSeq(rest, 3, Len(rest))
        d         == FindChar(after, {"/", "?", "#"})
        netloc    == IF ~hasNetloc THEN <<>>
                     ELSE IF d = 0 THEN after ELSE SubSeq(after, 1, d - 1)
        rest2     == IF ~hasNetloc THEN rest
                     ELSE IF d = 0 THEN <<>> ELSE SubSeq(after, d, Len(after))
        q         == FindChar(rest2, {"?", "#"})
        noquery   == IF q = 0 THEN rest2 ELSE SubSeq(rest2, 1, q - 1)
        path      == SplitParams(noquery)
        open      == \E k \in 1..Len(netloc) : netloc[k] = "["
        close     == \E k \in 1..Len(netloc) : netloc[k] = "]"
    IN  [raises |-> hasNetloc /\ (open # close),
         scheme |-> scheme, netloc |-> netloc, path |-> path]

----------------------------------------------------------------------------
(* ipv4_re and re.match(ipv4_re, netloc) *)

\* s[i .. i+n-1] matches (?:25[0-5]|2[0-4]\d|[0-1]?\d?\d)
OctetAt(s, i, n) ==
    /\ i >= 1
    /\ i + n - 1 <= Len(s)
    /\ \/ /\ n = 3
          /\ s[i] = "2"
          /\ s[i + 1] = "5"
          /\ s[i + 2] \in {"0", "1", "2", "3", "4", "5"}
       \/ /\ n = 3
          /\ s[i] = "2"
          /\ s[i + 1] \in {"0", "1", "2", "3", "4"}
          /\ s[i + 2] \in Digits
       \/ /\ n = 3
          /\ s[i] \in {"0", "1"}
          /\ s[i + 1] \in Digits
          /\ s[i + 2] \in Digits
       \/ /\ n = 2
          /\ s[i] \in Digits
          /\ s[i + 1] \in Digits
       \/ /\ n = 1
          /\ s[i] \in Digits

\* s[i] is the "." of (?:\.(?:octet)) and an octet of n characters follows
DotOctetAt(s, i, n) == i <= Len(s) /\ s[i] = "." /\ OctetAt(s, i + 1, n)

\* the lookahead (?=$|(?::(\d{2,5}))) at position k, the first character
\* after the four octets: the end of the string (or its final newline), or a
\* ":" and two digits; nothing is asked of what follows them
Lookahead(s, k) ==
    \/ k = Len(s) + 1
    \/ k = Len(s) /\ s[k] = "\n"
    \/ /\ k + 2 <= Len(s)
       /\ s[k] = ":"
       /\ s[k + 1] \in Digits
       /\ s[k + 2] \in Digits

\* re.match(ipv4_re, s) is not None: anchored at the start only; the regex
\* engine backtracks over the octets' lengths
Ipv4Match(s) ==
    \E n1, n2, n3, n4 \in 1..3 :
        /\ OctetAt(s, 1, n1)
        /\ DotOctetAt(s, 1 + n1, n2)
        /\ DotOctetAt(s, 2 + n1 + n2, n3)
        /\ DotOctetAt(s, 3 + n1 + n2 + n3, n4)
        /\ Lookahead(s, 4 + n1 + n2 + n3 + n4)

----------------------------------------------------------------------------
(* The conditions and the pure steps of the code *)

\* catalog_file_name.lower().endswith('.xml')
\* (faulty variant: the dot of the extension is not asked for)
ValidCatalogMutant(name) == EndsWith(Lower(name), <<"x", "m", "l">>)
ValidCatalog(name) == EndsWith(Lower(name), XmlExt)

\* any(gen in idrac.ServerGeneration for gen in ['12', '13'])
\* (faulty variant: only '12' is looked for)
IsLegacyGenerationMutant(generation) == Contains(generation, <<"1", "2">>)
IsLegacyGeneration(generation) ==
    \E gen \in LegacyGenerations : Contains(generation, gen)

\* share_name.lower().startswith(('http://', 'https://', 'ftp://'))
\* (faulty variant: the comparison minds the case)
IsUrlShareMutant(name) == \E p \in UrlPrefixes : StartsWith(name, p)
IsUrlShare(name) == \E p \in UrlPrefixes : StartsWith(Lower(name), p)

\* idrac.use_redfish and (not module.params.get('share_mnt'))
\* (faulty variant: the mount point is never asked for)
MountPointMissingMutant(redfish, mnt) == FALSE
MountPointMissing(redfish, mnt) ==
    redfish /\ (mnt = None \/ (mnt.type = "str" /\ mnt.val = <<>>))

\* "Invalid url: {}. {}".format(share_name, error_str)
InvalidUrlMsg(name, error_str) ==
    InvalidUrlPrefix \o name \o <<".", " ">> \o error_str

\* The validation of update_fw_from_url, up to the remote call:
\*   [kind |-> "raise", text]   urlparse raised
\*   [kind |-> "msg", val]      the URL is refused, val is returned as msg
\*   [kind |-> "call", ...]     update_from_repo_url is to be called
\* "not p" is never true: p is a six-field tuple.
update_fw_from_url(name) ==
    LET p == urlparse(name)
    IN  IF p.raises
        THEN [kind |-> "raise", text |-> IPv6ErrorText]
        ELSE IF p.scheme \notin schemes
        THEN [kind |-> "msg", val |-> Str(InvalidUrlMsg(name, SchemeErrorStr))]
        ELSE IF ~(p.netloc # <<>> /\ Ipv4Match(p.netloc))
        THEN [kind |-> "msg", val |-> Str(InvalidUrlMsg(name, NetlocErrorStr))]
        ELSE [kind |-> "call", ipaddress |-> p.netloc, share_type |-> p.scheme,
              share_name |-> IF p.path = <<>> THEN <<"/">> ELSE p.path]

\* The except clause: err = True; msg['msg'] = "Error: %s" % str(e);
\* msg['failed'] = True
\* (faulty variant: the message lacks its "Error: " head)
ExceptHandlerMutant(m, text) == [m EXCEPT !.msg = Str(text), !.failed = TRUE]
ExceptHandler(m, text) ==
    [m EXCEPT !.msg = Str(ErrorPrefix \o text), !.failed = TRUE]

\* The interpretation of msg['msg']:
\*   [raises |-> TRUE, text]   "Status" in v, or v['Status'], raised TypeError
\*   [raises |-> FALSE, m]     the msg dict with changed or failed set
\* (faulty variant: any "Status" counts as a success)
InterpretStatusMutant(m) ==
    LET v == m.msg
    IN  IF v.type = "dict" /\ v.hasStatus
        THEN [raises |-> FALSE, m |-> [m EXCEPT !.changed = TRUE]]
        ELSE [raises |-> FALSE, m |-> [m EXCEPT !.failed = TRUE]]
InterpretStatus(m) ==
    LET v == m.msg
    IN  IF v.type = "none"
        THEN [raises |-> TRUE, text |-> NoneIterErrorText]
        ELSE IF v.type = "str"
        THEN IF Contains(v.val, StatusKey)
             THEN [raises |-> TRUE, text |-> StrIndexErrorText]
             ELSE [raises |-> FALSE, m |-> [m EXCEPT !.failed = TRUE]]
        ELSE IF v.hasStatus
        THEN IF v.Status = Str(SuccessStr)
             THEN [raises |-> FALSE, m |-> [m EXCEPT !.changed = TRUE]]
             ELSE [raises |-> FALSE, m |-> [m EXCEPT !.failed = TRUE]]
        ELSE [raises |-> FALSE, m |-> [m EXCEPT !.failed = TRUE]]

\* AnsibleModule.fail_json(**kwargs): failed is forced to True in the JSON
fail_json(kwargs) ==
    [k \in DOMAIN kwargs \cup {"failed"} |->
        IF k = "failed" THEN TRUE ELSE kwargs[k]]

\* AnsibleModule.exit_json(**kwargs): the JSON is kwargs as given
exit_json(kwargs) == kwargs

----------------------------------------------------------------------------
(* The inputs of a run *)

\* the longest port, in digits, among the share locators tried
MaxPortDigits == 2

Port(k) == IF k = 0 THEN <<>> ELSE <<":">> \o [i \in 1..k |-> "8"]

SharePrefixes ==
    { <<"h", "t", "t", "p", ":", "/", "/">>,
      <<"H", "T", "T", "P", ":", "/", "/">>,
      <<"h", "t", "t", "p", "s", ":", "/", "/">>,
      <<"f", "t", "p", ":", "/", "/">>,
      <<"g", "o", "p", "h", "e", "r", ":", "/", "/">>,
      <<>> }

ShareHosts ==
    { <<"1", ".", "2", ".", "3", ".", "4">>,
      <<"1", ".", "2", ".", "3", ".", "2", "5", "6">>,
      <<"h">>,
      <<"[", ":", ":", "1", "]">>,
      <<"[", ":", ":", "1">>,
      <<>> }

ShareTrailers == { <<>>, <<"x">> }

SharePaths == { <<>>, <<"/", "S", "t", "a", "t", "u", "s">> }

ShareNames ==
    { pre \o host \o Port(k) \o trail \o path :
        pre \in SharePrefixes, host \in ShareHosts, k \in 0..MaxPortDigits,
        trail \in ShareTrailers, path \in SharePaths }

CatalogNames ==
    { <<"c", ".", "x", "m", "l">>, <<"C", ".", "X", "m", "L">>,
      <<"c", ".", "t", "x", "t">>, <<"c", "x", "m", "l">> }

ShareMounts == { None, Str(<<>>), Str(<<"/", "m">>) }

Generations ==
    { <<"1", "2", "G">>, <<"1", "3", "G">>, <<"1", "4", "G">> }

\* what idrac.update_mgr answers: a job-status dict, with or without a
\* "Status", nothing at all, or an exception
Responses ==
    { [kind |-> "returned", val |-> Dict(TRUE, Str(SuccessStr))],
      [kind |-> "returned",
       val |-> Dict(TRUE, Str(<<"F", "a", "i", "l", "e", "d">>))],
      [kind |-> "returned", val |-> EmptyDict],
      [kind |-> "returned", val |-> None],
      [kind |-> "raised", text |-> <<"t", "i", "m", "e", "o", "u", "t">>] }

NoResponse == [kind |-> "none"]

----------------------------------------------------------------------------
(* The run *)

Init ==
    /\ pc = "main"
    /\ share_name \in ShareNames
    /\ share_mnt \in ShareMounts
    /\ catalog_file_name \in CatalogNames
    /\ ServerGeneration \in Generations
    /\ use_redfish \in BOOLEAN
    /\ entry_redfish = use_redfish
    /\ msg = [changed |-> FALSE, failed |-> FALSE, msg |-> EmptyDict]
    /\ err = FALSE
    /\ calls = <<>>
    /\ resp = NoResponse
    /\ raised = None
    /\ connected = FALSE
    /\ disconnected = FALSE
    /\ exitVia = "none"
    /\ result = None

\* fail_json called inside update_fw_from_repo: it raises SystemExit, which
\* "except Exception" does not catch, and the process ends there
FailFast(text) ==
    /\ pc' = "exited"
    /\ exitVia' = "fail_json"
    /\ result' = fail_json([msg |-> Str(text)])
    /\ UNCHANGED <<share_name, share_mnt, catalog_file_name, ServerGeneration,
                   use_redfish, entry_redfish, msg, err, calls, resp, raised,
                   connected, disconnected>>

\* an exception raised inside the try block, caught by the except clause
Caught(text) ==
    /\ msg' = ExceptHandler(msg, text)
    /\ err' = TRUE
    /\ raised' = Str(text)
    /\ pc' = "return"

\* idrac_conn = iDRACConnection(module); idrac = idrac_conn.connect()
Connect ==
    /\ pc = "main"
    /\ connected' = TRUE
    /\ pc' = "catalog"
    /\ UNCHANGED <<share_name, share_mnt, catalog_file_name, ServerGeneration,
                   use_redfish, entry_redfish, msg, err, calls, resp, raised,
                   disconnected, exitVia, result>>

\* the check of the catalog file's name
CheckCatalog ==
    /\ pc = "catalog"
    /\ IF ~ValidCatalog(catalog_file_name)
       THEN FailFast(InvalidCatalogPrefix \o catalog_file_name
                         \o InvalidCatalogSuffix)
       ELSE /\ pc' = "generation"
            /\ UNCHANGED <<share_name, share_mnt, catalog_file_name,
                           ServerGeneration, use_redfish, entry_redfish, msg,
                           err, calls, resp, raised, connected, disconnected,
                           exitVia, result>>

\* the temporary fix for the 12th and 13th generation servers
CheckGeneration ==
    /\ pc = "generation"
    /\ use_redfish' = IF IsLegacyGeneration(ServerGeneration)
                      THEN FALSE ELSE use_redfish
    /\ pc' = "dispatch"
    /\ UNCHANGED <<share_name, share_mnt, catalog_file_name, ServerGeneration,
                   entry_redfish, msg, err, calls, resp, raised, connected,
                   disconnected, exitVia, result>>

\* the branch on the share's kind; the URL branch sets use_redfish to False
Dispatch ==
    /\ pc = "dispatch"
    /\ IF IsUrlShare(share_name)
       THEN use_redfish' = FALSE /\ pc' = "url"
       ELSE use_redfish' = use_redfish /\ pc' = "mount"
    /\ UNCHANGED <<share_name, share_mnt, catalog_file_name, ServerGeneration,
                   entry_redfish, msg, err, calls, resp, raised, connected,
                   disconnected, exitVia, result>>

\* update_fw_from_url up to the remote call
ValidateUrl ==
    /\ pc = "url"
    /\ LET r == update_fw_from_url(share_name)
       IN  IF r.kind = "raise"
           THEN Caught(r.text)
           ELSE IF r.kind = "msg"
           THEN /\ msg' = [msg EXCEPT !.msg = r.val]
                /\ pc' = "interpret"
                /\ UNCHANGED <<err, raised>>
           ELSE /\ pc' = "call_url"
                /\ UNCHANGED <<msg, err, raised>>
    /\ UNCHANGED <<share_name, share_mnt, catalog_file_name, ServerGeneration,
                   use_redfish, entry_redfish, calls, resp, connected,
                   disconnected, exitVia, result>>

\* a request is issued to the update manager and answered by r
Remote(request, r) ==
    /\ calls' = Append(calls, request)
    /\ resp' = r
    /\ IF r.kind = "raised"
       THEN Caught(r.text)
       ELSE /\ msg' = [msg EXCEPT !.msg = r.val]
            /\ pc' = "interpret"
            /\ UNCHANGED <<err, raised>>
    /\ UNCHANGED <<share_name, share_mnt, catalog_file_name, ServerGeneration,
                   use_redfish, entry_redfish, connected, disconnected,
                   exitVia, result>>

\* idrac.update_mgr.update_from_repo_url(...)
CallRepoUrl ==
    /\ pc = "call_url"
    /\ \E r \in Responses :
         LET u == update_fw_from_url(share_name)
         IN  Remote([fn |-> "update_from_repo_url",
                     use_redfish |-> use_redfish,
                     ipaddress |-> u.ipaddress,
                     share_type |-> u.share_type,
                     share_name |-> u.share_name,
                     catalog_file |-> catalog_file_name], r)

\* the mount point that a Redfish update from a network share needs
CheckMountPoint ==
    /\ pc = "mount"
    /\ IF MountPointMissing(use_redfish, share_mnt)
       THEN FailFast(ShareMntMsg)
       ELSE /\ pc' = "call_nw"
            /\ UNCHANGED <<share_name, share_mnt, catalog_file_name,
                           ServerGeneration, use_redfish, entry_redfish, msg,
                           err, calls, resp, raised, connected, disconnected,
                           exitVia, result>>

\* update_fw_from_nw_share: FileOnShare(remote=share_name).new_file(catalog)
\* and idrac.update_mgr.update_from_repo(catalog_path=...)
CallRepo ==
    /\ pc = "call_nw"
    /\ \E r \in Responses :
         Remote([fn |-> "update_from_repo",
                 use_redfish |-> use_redfish,
                 catalog_path |-> [remote |-> share_name,
                                   file |-> catalog_file_name]], r)

\* the interpretation of the "Status" of msg['msg']
Interpret ==
    /\ pc = "interpret"
    /\ LET r == InterpretStatus(msg)
       IN  IF r.raises
           THEN Caught(r.text)
           ELSE /\ msg' = r.m
                /\ pc' = "return"
                /\ UNCHANGED <<err, raised>>
    /\ UNCHANGED <<share_name, share_mnt, catalog_file_name, ServerGeneration,
                   use_redfish, entry_redfish, calls, resp, connected,
                   disconnected, exitVia, result>>

\* return msg, err; then main's idrac_conn.disconnect()
Disconnect ==
    /\ pc = "return"
    /\ disconnected' = TRUE
    /\ pc' = "exit"
    /\ UNCHANGED <<share_name, share_mnt, catalog_file_name, ServerGeneration,
                   use_redfish, entry_redfish, msg, err, calls, resp, raised,
                   connected, exitVia, result>>

\* if err: module.fail_json(**msg); module.exit_json(**msg)
Exit ==
    /\ pc = "exit"
    /\ IF err
       THEN exitVia' = "fail_json" /\ result' = fail_json(msg)
       ELSE exitVia' = "exit_json" /\ result' = exit_json(msg)
    /\ pc' = "exited"
    /\ UNCHANGED <<share_name, share_mnt, catalog_file_name, ServerGeneration,
                   use_redfish, entry_redfish, msg, err, calls, resp, raised,
                   connected, disconnected>>

Next ==
    \/ Connect
    \/ CheckCatalog
    \/ CheckGeneration
    \/ Dispatch
    \/ ValidateUrl
    \/ CallRepoUrl
    \/ CheckMountPoint
    \/ CallRepo
    \/ Interpret
    \/ Disconnect
    \/ Exit

Spec == Init /\ [][Next]_vars

----------------------------------------------------------------------------
(* What the properties speak of, stated on the inputs and the observable   *)
(* record of the run, independently of the conditions the code computes    *)

\* update_fw_from_repo has returned msg, err to main
Returned == pc \in {"return", "exit"} \/ (pc = "exited" /\ disconnected)

\* a remote request answered with a dict whose "Status" is "Success"
RemoteSuccess ==
    /\ resp.kind = "returned"
    /\ resp.val.type = "dict"
    /\ resp.val.hasStatus
    /\ resp.val.Status = Str(SuccessStr)

\* the name ends in ".xml", in any mix of cases
EndsInXml(name) ==
    /\ Len(name) >= 4
    /\ name[Len(name) - 3] = "."
    /\ name[Len(name) - 2] \in {"x", "X"}
    /\ name[Len(name) - 1] \in {"m", "M"}
    /\ name[Len(name)] \in {"l", "L"}

\* the locator starts with prefix p, compared without regard to case
HasPrefixNoCase(s, p) ==
    Len(s) >= Len(p) /\ \A i \in 1..Len(p) : LowerChar(s[i]) = p[i]

\* the locator is of URL kind
UrlKind(s) == \E p \in UrlPrefixes : HasPrefixNoCase(s, p)

\* the locator is <letters>://..., and the letters are not ftp, http or https
UnsupportedScheme(s) ==
    LET i == FindChar(s, {":"})
    IN  /\ i > 1
        /\ \A j \in 1..(i - 1) : s[j] \in Letters
        /\ i + 2 <= Len(s)
        /\ SubSeq(s, i, i + 2) = <<":", "/", "/">>
        /\ Lower(SubSeq(s, 1, i - 1)) \notin schemes

\* the value of a string of digits
RECURSIVE DigitsValue(_)
DigitsValue(t) ==
    IF t = <<>> THEN 0
    ELSE 10 * DigitsValue(SubSeq(t, 1, Len(t) - 1))
         + (CHOOSE d \in 0..9 : ToString(d) = t[Len(t)])

\* one to three digits that spell a number from 0 to 255
IsOctet(t) ==
    /\ Len(t) \in 1..3
    /\ \A i \in 1..Len(t) : t[i] \in Digits
    /\ DigitsValue(t) <= 255

\* a dotted quad of octets, then nothing, or ":" and a port of digits only
StrictHost(h) ==
    \E a, b, c, e \in 1..Len(h) :
        /\ a < b /\ b < c /\ c < e + 1
        /\ h[a] = "." /\ h[b] = "." /\ h[c] = "."
        /\ IsOctet(SubSeq(h, 1, a - 1))
        /\ IsOctet(SubSeq(h, a + 1, b - 1))
        /\ IsOctet(SubSeq(h, b + 1, c - 1))
        /\ IsOctet(SubSeq(h, c + 1, e))
        /\ \/ e = Len(h)
           \/ /\ e + 2 <= Len(h)
              /\ h[e + 1] = ":"
              /\ \A j \in (e + 2)..Len(h) : h[j] \in Digits

\* the server generation identifier contains "12" or "13"
LegacyServer(g) ==
    \E i \in 1..(Len(g) - 1) : g[i] = "1" /\ g[i + 1] \in {"2", "3"}

\* no mount point was supplied
NoMountPoint == share_mnt = None \/ share_mnt = Str(<<>>)

\* every validation of the run passes: the catalog's name, then the URL for a
\* URL locator, the mount point for a network share under Redfish
AllValidationsPass ==
    /\ EndsInXml(catalog_file_name)
    /\ IF UrlKind(share_name)
       THEN update_fw_from_url(share_name).kind = "call"
       ELSE ~(entry_redfish /\ ~LegacyServer(ServerGeneration) /\ NoMountPoint)

TypeOK ==
    /\ pc \in {"main", "catalog", "generation", "dispatch", "url", "call_url",
               "mount", "call_nw", "interpret", "return", "exit", "exited"}
    /\ share_name \in ShareNames
    /\ catalog_file_name \in CatalogNames
    /\ share_mnt \in ShareMounts
    /\ ServerGeneration \in Generations
    /\ use_redfish \in BOOLEAN
    /\ err \in BOOLEAN
    /\ msg.changed \in BOOLEAN /\ msg.failed \in BOOLEAN
    /\ resp \in Responses \cup {NoResponse}
    /\ exitVia \in {"none", "fail_json", "exit_json"}
    /\ connected \in BOOLEAN /\ disconnected \in BOOLEAN

----------------------------------------------------------------------------
(* The properties *)

\* C1: in every outcome update_fw_from_repo returns, changed is true exactly
\* when a remote update call answered with a Status equal to "Success", and
\* failed is true exactly when changed is false (a Status of another value, no
\* Status, a refused URL, an exception): never both, never neither.
C1_OutcomeChangedIffSuccess ==
    Returned => /\ msg.changed <=> RemoteSuccess
                /\ msg.failed <=> ~msg.changed

\* C1 witness: an outcome returned after a remote call answered "Success"
C1_Witness == Returned /\ RemoteSuccess /\ msg.changed /\ Len(calls) = 1

\* C2: a run whose catalog_file_name does not end in ".xml" (in any case)
\* never issues a remote request and never gets past the catalog check: it
\* ends through fail_json with the invalid-catalog message.
C2_InvalidCatalogFailsFast ==
    ~EndsInXml(catalog_file_name) =>
        /\ calls = <<>>
        /\ pc \in {"main", "catalog", "exited"}
        /\ pc = "exited" =>
              /\ exitVia = "fail_json"
              /\ result.msg = Str(InvalidCatalogPrefix \o catalog_file_name
                                      \o InvalidCatalogSuffix)

\* C2 witness: a run with a URL locator and Catalog "c.txt" that has ended
C2_Witness ==
    /\ pc = "exited"
    /\ catalog_file_name = <<"c", ".", "t", "x", "t">>
    /\ UrlKind(share_name)
    /\ exitVia = "fail_json"

\* C3 (as claimed): the module ends through fail_json if and only if the
\* outcome's failed field is true.
C3_FailJsonIffFailed ==
    pc = "exited" => (exitVia = "fail_json" <=> result.failed)

\* C4 (as claimed): a locator with a URL scheme other than ftp, http, https
\* leads to no remote update call.
C4_UnsupportedSchemeNoCall ==
    UnsupportedScheme(share_name) => calls = <<>>

\* C5 (as claimed): update_from_repo_url is called only with a host that is
\* exactly a strict IPv4 dotted quad, optionally followed by ":" and a port
\* number, with nothing after it.
C5_UrlCallOnlyForStrictHost ==
    \A i \in 1..Len(calls) :
        calls[i].fn = "update_from_repo_url" => StrictHost(calls[i].ipaddress)

\* C6: when the network-share path is taken under Redfish without a mount
\* point, the run ends through fail_json with the missing-mount-point
\* message, and update_from_repo is never called under Redfish without a
\* mount point.
C6_MissingMountPointFailsFast ==
    /\ ( /\ EndsInXml(catalog_file_name)
         /\ ~UrlKind(share_name)
         /\ use_redfish
         /\ NoMountPoint
         /\ pc \notin {"main", "catalog", "generation", "dispatch", "mount"} )
       => /\ pc = "exited"
          /\ exitVia = "fail_json"
          /\ result.msg = Str(ShareMntMsg)
          /\ calls = <<>>
    /\ \A i \in 1..Len(calls) :
          calls[i].fn = "update_from_repo" =>
              ~(calls[i].use_redfish /\ NoMountPoint)

\* C6 witness: a Redfish run on a network share without share_mnt has ended
C6_Witness ==
    /\ pc = "exited"
    /\ ~UrlKind(share_name)
    /\ use_redfish
    /\ share_mnt = None
    /\ result.msg = Str(ShareMntMsg)

\* C7: once an exception was raised while building or executing the request,
\* update_fw_from_repo has returned, with failed true, changed false and a
\* message that is "Error: " followed by the exception's text.
C7_ExceptionBecomesFailedOutcome ==
    raised # None =>
        /\ Returned
        /\ err
        /\ msg = [changed |-> FALSE, failed |-> TRUE,
                  msg |-> Str(ErrorPrefix \o raised.val)]

\* C7 witness: the remote call raised and the outcome was returned
C7_Witness ==
    /\ resp.kind = "raised"
    /\ raised = Str(resp.text)
    /\ pc = "exited"
    /\ exitVia = "fail_json"

\* C8: every remote request is issued with use_redfish false when the server
\* generation contains "12" or "13" or the locator is of URL kind, whatever
\* use_redfish was on entry.
C8_LegacyModeWhenRequestIssued ==
    \A i \in 1..Len(calls) :
        (LegacyServer(ServerGeneration) \/ UrlKind(share_name))
            => ~calls[i].use_redfish

\* C8 witness: a request issued for a 13G server on a network share, the
\* session having been in Redfish mode on entry
C8_Witness ==
    /\ Len(calls) = 1
    /\ entry_redfish
    /\ ServerGeneration = <<"1", "3", "G">>
    /\ ~UrlKind(share_name)
    /\ ~calls[1].use_redfish

\* C9: a run issues at most one remote request; when every validation passes
\* it has issued exactly one once the request step is behind it:
\* update_from_repo_url for a locator that starts with "http://", "https://"
\* or "ftp://" in any case, update_from_repo for any other.
C9_ExactlyOneRequestOfTheRightKind ==
    /\ Len(calls) <= 1
    /\ (AllValidationsPass /\ pc \in {"interpret", "return", "exit", "exited"})
       => /\ Len(calls) = 1
          /\ calls[1].fn = IF UrlKind(share_name)
                           THEN "update_from_repo_url"
                           ELSE "update_from_repo"

\* C9 witness: a run on an upper-case "HTTP://" locator has ended after its
\* one update_from_repo_url request
C9_Witness ==
    /\ pc = "exited"
    /\ StartsWith(share_name, <<"H", "T", "T", "P", ":", "/", "/">>)
    /\ Len(calls) = 1
    /\ calls[1].fn = "update_from_repo_url"

\* C10 (as claimed): every run that connected to the iDRAC has disconnected
\* when the module has exited.
C10_DisconnectsBeforeExit ==
    (pc = "exited" /\ connected) => disconnected

====
